---- MODULE Spec2Model ----
(***************************************************************************)
(* SD/MMC host driver of stm32l4xx-hal (src/src/sdmmc.rs).                 *)
(*                                                                         *)
(* The driver (struct SdMmc) is modelled together with the register file   *)
(* of the SDMMC1 peripheral.  A 32-bit register word is the tuple of its   *)
(* four bytes, most significant first: <<170,187,204,221>> is 0xAABBCCDD.  *)
(* Every call of SdMmc::cmd is one atomic step whose outcome the hardware  *)
(* chooses; the FIFO drain loops of get_scr and read_sd_status advance one *)
(* status poll per step.  The driver reads SDMMC_RESP1..4 only right after *)
(* a command that latched them, so the response registers are threaded     *)
(* through the commands of a step and are no variable of their own.        *)
(***************************************************************************)
EXTENDS Integers, Sequences, FiniteSets, TLC

VARIABLES
    card,           \* SdMmc.card: None, or Some(c) for an SdCard record c
    bus_width,      \* SdMmc.bus_width: PINS::BUS_WIDTH, fixed at construction
    clkcr,          \* SDMMC_CLKCR: clkdiv, widbus, clken
    power,          \* SDMMC_POWER.pwrctrl
    fifo,           \* words waiting in SDMMC_FIFO during a transfer
    pc,             \* position of the running call ("caller": no call running)
    freq,           \* init's argument
    high_capacity,  \* init's local high_capacity
    ncard,          \* init's local `card`
    timeout,        \* init's local `timeout` of the voltage negotiation loop
    scr,            \* get_scr's local array, as a sequence (scr[i+1] is Rust's scr[i])
    sd_status,      \* read_sd_status's local array
    n,              \* number of FIFO words the running drain loop has consumed
    ret,            \* the result the last step returned to the caller, if it returned
    at,             \* the step taken last
    issued,         \* what the last step wrote to the command and data control registers
    inserted,       \* the card in the slot
    scenario,       \* what the card may do in the voltage negotiation loop:
                    \*   busy: for how many polls it may stay busy, crc: whether CRC failures occur
    everOk,         \* some init call has returned Ok
    prev,           \* at the start of the running (or just returned) init call: whether an
                    \*   earlier init had returned Ok, and the card recorded then
    sent,           \* operating-condition commands the voltage negotiation has issued
    busyPolls,      \* how many of them the card answered busy
    crcs,           \* CRC failures the voltage negotiation has swallowed
    status,         \* the card status the last card_ready of the running init read
    clock,          \* SdMmc.clock, in Hz
    STA,            \* SDMMC_STA: cmdact and the command flags
    cur,            \* the command of the running (or last) call of cmd
    polls,          \* status polls the running call of cmd has made after writing SDMMC_CMD
    seen,           \* cmd's local `sta`: what its last status poll read
    fresh,          \* the flags the command path raised for the last command written
    cr1,            \* PWR_CR1: vos and lpr
    tick,           \* parity of the card-status reads `while !self.card_ready()? {}` has
                    \*   made without leaving the loop
    poll            \* the status poll a drain loop made in the last step, if it made one:
                    \*   sta: the loop's local `sta`, n: FIFO words consumed before the poll,
                    \*   took: FIFO words read after the poll

vars == <<card, bus_width, clkcr, power, fifo, pc, freq,
          high_capacity, ncard, timeout, scr, sd_status, n, ret, at, issued,
          inserted, scenario, everOk, prev, sent, busyPolls, crcs, status,
          clock, STA, cur, polls, seen, fresh, cr1, tick, poll>>

\* what SdMmc::init, read_sd_status and card leave alone in this model: the clock,
\* the state of the command path below SdMmc::cmd, and the power controller
hwvars == <<clock, STA, cur, polls, seen, fresh, cr1>>

(***************************************************************************)
(* Bounds of the model                                                     *)
(***************************************************************************)
\* polls a card may keep init in the voltage negotiation loop under Spec
MaxBusy == 1

\* the system clock of the model, in Hz: the slowest that gives cmd a poll budget
SlowClock == 8000

\* the fastest system clock passed to the power controller, in MHz
MaxMHz == 27

(***************************************************************************)
(* Words                                                                   *)
(***************************************************************************)
ZeroWord == <<0, 0, 0, 0>>

\* u32::swap_bytes
swap_bytes(w) == <<w[4], w[3], w[2], w[1]>>

\* bit k (0..31) of a word
Bit(w, k) == (w[4 - (k \div 8)] \div (2 ^ (k % 8))) % 2

\* (rca as u32) << 16, the argument of every addressed command
RcaArg(rca) == <<rca \div 256, rca % 256, 0, 0>>

(***************************************************************************)
(* Enumerations                                                            *)
(***************************************************************************)
\* enum BusWidth, the discriminants
One == 0
Four == 1
Eight == 2
BusWidths == {One, Four, Eight}

\* enum ClockFreq, the discriminants used here
Freq24MHz == 0
Freq8MHz == 8
Freq400KHz == 118
ClockFreqs == {Freq24MHz}
NoFreq == "none"

\* `let mut timeout = 0xffff` of init
RetryBudget == 65535

\* pwrctrl of power_card(true) and power_card(false)
PowerOn == 3
PowerOff == 0

\* the entry of `issued` that stands for a write of the data control register
DataPath == 255

\* Error::NoCard
NoCard == "NoCard"

\* Option<SdCard>
None == <<>>
Some(c) == <<c>>

(***************************************************************************)
(* sdio_host: descriptors                                                  *)
(***************************************************************************)
\* CIC::pattern: the low byte of the R7 response
CicPattern(w) == w[4]

\* OCR::is_busy: bit 31 clear
OcrIsBusy(w) == Bit(w, 31) = 0

\* OCR::high_capacity: bit 30
OcrHighCapacity(w) == Bit(w, 30) = 1

\* RCA::address: the upper half of the R6 response
RcaAddress(w) == w[1] * 256 + w[2]

\* CardStatus::state: bits 12..9 of the R1 response
StatusState(w) == (w[3] \div 2) % 16

\* CurrentState::Transfer
Transfer == 4

\* SCR::bus_width_four: bit 50 of the 64-bit register, bit 18 of its high word
ScrBusWidthFour(s) == Bit(s[2], 18) = 1

\* SdCard::default()
DefaultCard == [capacity |-> "StandardCapacity", ocr |-> ZeroWord,
                cid |-> <<ZeroWord, ZeroWord, ZeroWord, ZeroWord>>,
                rca |-> ZeroWord,
                csd |-> <<ZeroWord, ZeroWord, ZeroWord, ZeroWord>>,
                scr |-> <<ZeroWord, ZeroWord>>]

\* SdCard::get_address
get_address(c) == RcaAddress(c.rca)

\* SdCard::supports_widebus
supports_widebus(c) == ScrBusWidthFour(c.scr)

(***************************************************************************)
(* sdio_host: commands                                                     *)
(***************************************************************************)
Cmd(idx, arg, rlen) == [cmd |-> idx, arg |-> arg, rlen |-> rlen]

idle == Cmd(0, ZeroWord, "Zero")
\* sd_cmd::send_if_cond(1, 0xaa): voltage << 8 | check pattern
send_if_cond == Cmd(8, <<0, 0, 1, 170>>, "R48")
\* sd_cmd::sd_send_op_cond(hcs, false, false, 1 << 5): hcs << 30 | window << 15
sd_send_op_cond(hcs) == Cmd(41, <<IF hcs THEN 64 ELSE 0, 16, 0, 0>>, "R48")
all_send_cid == Cmd(2, ZeroWord, "R136")
send_relative_address == Cmd(3, ZeroWord, "R48")
send_csd(rca) == Cmd(9, RcaArg(rca), "R136")
select_card_cmd(rca) == Cmd(7, RcaArg(rca), "R48")
set_block_length(len) == Cmd(16, <<0, 0, 0, len>>, "R48")
app_cmd_prefix(rca) == Cmd(55, RcaArg(rca), "R48")
send_scr == Cmd(51, ZeroWord, "R48")
card_status(rca) == Cmd(13, RcaArg(rca), "R48")
set_bus_width(four) == Cmd(6, <<0, 0, 0, IF four THEN 2 ELSE 0>>, "R48")
sd_status_cmd == Cmd(13, ZeroWord, "R48")

(***************************************************************************)
(* The cards that may sit in the slot                                      *)
(***************************************************************************)
\* 0x00FF8000: power-up not finished
BusyOcr == <<0, 255, 128, 0>>

StatusBlock == [k \in 1..16 |-> <<k, 16 + k, 32 + k, 48 + k>>]

\* standard capacity, RCA 0x0001, 4-bit bus supported (SCR byte 1 = 0xCC)
CardA == [ocr |-> <<128, 255, 128, 0>>,
          cid |-> <<<<3, 83, 68, 65>>, <<65, 65, 65, 65>>, <<16, 0, 0, 1>>, <<0, 1, 33, 1>>>>,
          rca |-> <<0, 1, 5, 0>>,
          csd |-> <<<<0, 38, 0, 50>>, <<95, 89, 131, 200>>, <<190, 219, 207, 255>>, <<150, 64, 0, 1>>>>,
          scrBlock |-> <<<<170, 187, 204, 221>>, <<17, 34, 51, 68>>>>,
          status |-> StatusBlock]

\* high capacity, 1-bit bus only (SCR byte 1 = 0xB1); it publishes the broadcast
\* address 0 as its RCA
CardB == [ocr |-> <<192, 255, 128, 0>>,
          cid |-> <<<<2, 84, 77, 66>>, <<66, 66, 66, 66>>, <<32, 0, 0, 2>>, <<0, 2, 34, 3>>>>,
          rca |-> <<0, 0, 5, 0>>,
          csd |-> <<<<64, 14, 0, 50>>, <<91, 89, 0, 0>>, <<118, 178, 127, 128>>, <<10, 64, 64, 1>>>>,
          scrBlock |-> <<<<0, 165, 177, 2>>, <<1, 0, 0, 0>>>>,
          status |-> StatusBlock]

Cards == {CardA, CardB}

\* R7 answers: the echoed pattern, or something else
CicWords == {<<0, 0, 1, 170>>, ZeroWord}

\* R1 answers: state Idle, state Transfer, state Transfer with OUT_OF_RANGE
R1Words == {ZeroWord, <<0, 0, 9, 0>>, <<128, 0, 9, 0>>}

(***************************************************************************)
(* The command engine                                                      *)
(***************************************************************************)
\* SdMmc::cmd, its possible results: a command without response cannot fail its CRC
CmdOutcomes(c) ==
    IF c.rlen = "Zero" THEN {"Ok", "Timeout", "SoftwareTimeout"}
    ELSE {"Ok", "Crc", "Timeout", "SoftwareTimeout"}

\* what the card in the slot may answer to a command
HwAnswers(c) ==
    CASE c.cmd = 8 -> CicWords
      [] c.cmd = 41 -> {BusyOcr, inserted.ocr}
      [] c.cmd = 2 -> {inserted.cid}
      [] c.cmd = 9 -> {inserted.csd}
      [] c.cmd = 3 -> {inserted.rca}
      [] c.cmd = 0 -> {ZeroWord}
      [] OTHER -> R1Words

\* an R1 answer that nothing reads
AnyR1 == <<0, 0, 9, 0>>

\* SDMMC_RESP1..4 after the answer w: a long response fills all four words
Latch(c, r, w) ==
    IF c.rlen = "R136" THEN w ELSE <<w, r[2], r[3], r[4]>>

\* the state a sequence of cmd calls threads: the commands written, RESP1..4, and
\* the result of the last call (a call after a failed one is not made: the `?`)
St0 == [issued |-> <<>>, resp |-> <<ZeroWord, ZeroWord, ZeroWord, ZeroWord>>, res |-> "Ok"]

\* SdMmc::cmd, called with command c in state st: outcome o, answer w
CmdRun(st, c, o, w) ==
    IF st.res # "Ok" THEN st
    ELSE [issued |-> Append(st.issued, [cmd |-> c.cmd, arg |-> c.arg, rlen |-> c.rlen, out |-> o]),
          resp |-> IF o \in {"Ok", "Crc"} /\ c.rlen # "Zero" THEN Latch(c, st.resp, w) ELSE st.resp,
          res |-> o]

\* a call that is not made has one representative choice of outcome
Skipped(st, o) == st.res # "Ok" => o = "Ok"

\* a prefix addressed to the card in the slot, recorded or not
AppRcaInserted == get_address(inserted)

\* the address app_cmd sends its prefix to
AppRca == IF card = None THEN 0 ELSE get_address(card[1])

\* SdMmc::app_cmd
AppCmdRun(st, c, o1, w1, o2, w2) ==
    CmdRun(CmdRun(st, app_cmd_prefix(AppRca), o1, w1), c, o2, w2)

\* a select_card that forgives a timeout for every address
SelectCardForgiving(r, rca) == IF r = "Timeout" THEN "Ok" ELSE r

\* SdMmc::select_card: a hardware timeout on the broadcast address is no error
SelectCardResult(r, rca) ==
    IF r = "Timeout" /\ rca = 0 THEN "Ok" ELSE r

\* a negotiation that passes the host's width through for a 4-bit card
NegotiatedWidthOfHost(bw, card_widebus) == IF card_widebus THEN bw ELSE One

\* SdMmc::set_bus, the width negotiated
NegotiatedWidth(bw, card_widebus) ==
    IF bw \in {Eight, Four} /\ card_widebus THEN Four ELSE One

(***************************************************************************)
(* The initial state: SdMmc::new                                           *)
(***************************************************************************)
ZeroScr == <<ZeroWord, ZeroWord>>
ZeroStatus == [k \in 1..16 |-> ZeroWord]
NoRet == [op |-> "none", val |-> "none", data |-> <<>>]
NoPrev == [ok |-> FALSE, card |-> None]

\* SDMMC_STA with the command path idle and every command flag clear
NoFlags == [cmdact |-> FALSE, ctimeout |-> FALSE, ccrcfail |-> FALSE,
            cmdrend |-> FALSE, cmdsent |-> FALSE]

\* enum VosRange, the discriminants
HighPerformance == 1
LowPower == 2

\* PWR_CR1 after reset: range 1, low-power run off
Cr1Reset == [vos |-> HighPerformance, lpr |-> FALSE]

\* no drain loop polled in the last step
NoPoll == [sta |-> {}, n |-> 0, took |-> 0]

InitCommon ==
    /\ card = None
    /\ clkcr = [clkdiv |-> Freq400KHz, widbus |-> One, clken |-> FALSE]
    /\ power = PowerOff
    /\ fifo = <<>>
    /\ pc = "caller"
    /\ freq = NoFreq
    /\ high_capacity = FALSE
    /\ ncard = DefaultCard
    /\ timeout = 0
    /\ scr = ZeroScr
    /\ sd_status = ZeroStatus
    /\ n = 0
    /\ ret = NoRet
    /\ at = "new"
    /\ issued = <<>>
    /\ everOk = FALSE
    /\ prev = NoPrev
    /\ sent = 0
    /\ busyPolls = 0
    /\ crcs = 0
    /\ status = ZeroWord
    /\ STA = NoFlags
    /\ cur = idle
    /\ polls = 0
    /\ seen = NoFlags
    /\ fresh = NoFlags
    /\ cr1 = Cr1Reset
    /\ tick = 0
    /\ poll = NoPoll

Init ==
    /\ InitCommon
    /\ clock = SlowClock
    /\ bus_width \in BusWidths
    /\ inserted \in Cards
    /\ scenario = [busy |-> MaxBusy, crc |-> TRUE]

(***************************************************************************)
(* Returning from a call                                                   *)
(***************************************************************************)
\* init returns val to its caller; its locals die
InitReturn(val) ==
    /\ pc' = "caller"
    /\ ret' = [op |-> "init", val |-> val, data |-> <<>>]
    /\ everOk' = (everOk \/ val = "Ok")
    /\ freq' = NoFreq
    /\ high_capacity' = FALSE
    /\ ncard' = DefaultCard
    /\ timeout' = 0
    /\ scr' = ZeroScr
    /\ n' = 0

\* init goes on to position p
InitGoto(p) ==
    /\ pc' = p
    /\ ret' = NoRet
    /\ UNCHANGED everOk

\* the counts of the voltage negotiation are dropped once it is left behind
VoltForgotten ==
    /\ sent' = 0
    /\ busyPolls' = 0
    /\ crcs' = 0

(***************************************************************************)
(* SdMmc::init                                                             *)
(***************************************************************************)
\* power_card(true), clken, cmd(idle)
InitStart ==
    /\ pc = "caller"
    /\ \E f \in ClockFreqs, o \in CmdOutcomes(idle) :
        LET st == CmdRun(St0, idle, o, ZeroWord) IN
        /\ at' = "init"
        /\ issued' = st.issued
        /\ power' = PowerOn
        /\ clkcr' = [clkcr EXCEPT !.clken = TRUE]
        /\ prev' = [ok |-> everOk, card |-> card]
        /\ IF st.res = "Ok"
           THEN /\ InitGoto("if_cond")
                /\ freq' = f
                /\ UNCHANGED <<high_capacity, ncard, timeout, scr, n>>
           ELSE InitReturn(st.res)
    /\ VoltForgotten
    /\ UNCHANGED <<card, bus_width, fifo, sd_status, inserted, scenario>>
    /\ tick' = 0
    /\ poll' = NoPoll
    /\ UNCHANGED <<status, hwvars>>

\* cmd(send_if_cond(1, 0xaa)), the version classification, SdCard::default()
InitIfCond ==
    /\ pc = "if_cond"
    /\ \E o \in CmdOutcomes(send_if_cond), w \in HwAnswers(send_if_cond) :
        LET st == CmdRun(St0, send_if_cond, o, w) IN
        /\ o \notin {"Ok", "Crc"} => w = ZeroWord
        /\ at' = "if_cond"
        /\ issued' = st.issued
        /\ IF st.res = "Ok"
           THEN /\ InitGoto("op_cond")
                /\ high_capacity' = (CicPattern(st.resp[1]) = 170)
                /\ ncard' = DefaultCard
                /\ timeout' = RetryBudget
                /\ UNCHANGED <<freq, scr, n>>
           ELSE InitReturn(st.res)
    /\ UNCHANGED <<card, bus_width, clkcr, power, fifo, sd_status,
                   inserted, scenario, prev, sent, busyPolls, crcs>>
    /\ tick' = 0
    /\ poll' = NoPoll
    /\ UNCHANGED <<status, hwvars>>

\* the loop's exit test on the operating-conditions word read from RESP1
PowerUpDone(ocr) == ~OcrIsBusy(ocr)

\* a budget test that gives up one iteration early
BudgetSpentEarly(t) == t <= 1

\* the loop's test of its retry budget
BudgetSpent(t) == t = 0

\* a loop that goes on after Ok only
SwallowedOkOnly(res) == res = "Ok"

\* the results of app_cmd the loop goes on after
Swallowed(res) == res \in {"Ok", "Crc"}

\* one iteration of the voltage negotiation loop
InitOpCond ==
    /\ pc = "op_cond"
    /\ at' = "op_cond"
    /\ IF BudgetSpent(timeout)
       THEN /\ InitReturn("SoftwareTimeout")
            /\ issued' = <<>>
            /\ UNCHANGED <<sent, busyPolls, crcs>>
       ELSE \E o1 \in CmdOutcomes(app_cmd_prefix(AppRca)), w1 \in R1Words,
               o2 \in CmdOutcomes(sd_send_op_cond(high_capacity)),
               w2 \in HwAnswers(sd_send_op_cond(high_capacity)) :
            LET c == sd_send_op_cond(high_capacity)
                st == AppCmdRun(St0, c, o1, w1, o2, w2)
                asked == Len(st.issued) = 2
                ocr == st.resp[1]
            IN
            \* one representative of the choices that make no difference
            /\ o1 # "Ok" => (o2 = "Ok" /\ w2 = BusyOcr)
            /\ o1 # "Crc" => w1 = AnyR1
            /\ o2 \notin {"Ok", "Crc"} => w2 = BusyOcr
            /\ (st.res = "Crc") => scenario.crc
            /\ issued' = st.issued
            /\ IF Swallowed(st.res)
               THEN /\ sent' = sent + (IF asked THEN 1 ELSE 0)
                    /\ busyPolls' = busyPolls + (IF asked /\ w2 = BusyOcr THEN 1 ELSE 0)
                    /\ crcs' = crcs + (IF st.res = "Crc" THEN 1 ELSE 0)
                    /\ IF PowerUpDone(ocr)
                       THEN /\ InitGoto("cid")
                            /\ ncard' = [ncard EXCEPT
                                   !.capacity = IF OcrHighCapacity(ocr) THEN "HighCapacity"
                                                ELSE "StandardCapacity",
                                   !.ocr = ocr]
                            /\ timeout' = timeout - 1
                            /\ UNCHANGED <<freq, high_capacity, scr, n>>
                       ELSE /\ (RetryBudget - timeout) < scenario.busy
                            /\ InitGoto("op_cond")
                            /\ timeout' = timeout - 1
                            /\ UNCHANGED <<freq, high_capacity, ncard, scr, n>>
               ELSE /\ InitReturn(st.res)
                    /\ VoltForgotten
    /\ UNCHANGED <<card, bus_width, clkcr, power, fifo, sd_status,
                   inserted, scenario, prev>>
    /\ tick' = 0
    /\ poll' = NoPoll
    /\ UNCHANGED <<status, hwvars>>

\* cmd(all_send_cid), card.cid
InitCid ==
    /\ pc = "cid"
    /\ \E o \in CmdOutcomes(all_send_cid), w \in HwAnswers(all_send_cid) :
        LET st == CmdRun(St0, all_send_cid, o, w) IN
        /\ at' = "cid"
        /\ issued' = st.issued
        /\ IF st.res = "Ok"
           THEN /\ InitGoto("rel_addr")
                /\ ncard' = [ncard EXCEPT !.cid = st.resp]
                /\ UNCHANGED <<freq, high_capacity, timeout, scr, n>>
           ELSE InitReturn(st.res)
    /\ VoltForgotten
    /\ UNCHANGED <<card, bus_width, clkcr, power, fifo, sd_status,
                   inserted, scenario, prev>>
    /\ tick' = 0
    /\ poll' = NoPoll
    /\ UNCHANGED <<status, hwvars>>

\* cmd(send_relative_address), card.rca
InitRelAddr ==
    /\ pc = "rel_addr"
    /\ \E o \in CmdOutcomes(send_relative_address), w \in HwAnswers(send_relative_address) :
        LET st == CmdRun(St0, send_relative_address, o, w) IN
        /\ at' = "rel_addr"
        /\ issued' = st.issued
        /\ IF st.res = "Ok"
           THEN /\ InitGoto("csd")
                /\ ncard' = [ncard EXCEPT !.rca = st.resp[1]]
                /\ UNCHANGED <<freq, high_capacity, timeout, scr, n>>
           ELSE InitReturn(st.res)
    /\ UNCHANGED <<card, bus_width, clkcr, power, fifo, sd_status,
                   inserted, scenario, prev, sent, busyPolls, crcs>>
    /\ tick' = 0
    /\ poll' = NoPoll
    /\ UNCHANGED <<status, hwvars>>

\* cmd(send_csd(card.rca.address())), card.csd
InitCsd ==
    /\ pc = "csd"
    /\ \E o \in CmdOutcomes(send_csd(0)), w \in HwAnswers(send_csd(0)) :
        LET st == CmdRun(St0, send_csd(get_address(ncard)), o, w) IN
        /\ at' = "csd"
        /\ issued' = st.issued
        /\ IF st.res = "Ok"
           THEN /\ InitGoto("select")
                /\ ncard' = [ncard EXCEPT !.csd = st.resp]
                /\ UNCHANGED <<freq, high_capacity, timeout, scr, n>>
           ELSE InitReturn(st.res)
    /\ UNCHANGED <<card, bus_width, clkcr, power, fifo, sd_status,
                   inserted, scenario, prev, sent, busyPolls, crcs>>
    /\ tick' = 0
    /\ poll' = NoPoll
    /\ UNCHANGED <<status, hwvars>>

\* select_card(card.rca.address())
InitSelect ==
    /\ pc = "select"
    /\ \E o \in CmdOutcomes(select_card_cmd(0)) :
        LET rca == get_address(ncard)
            st == CmdRun(St0, select_card_cmd(rca), o, AnyR1)
            r == SelectCardResult(st.res, rca)
        IN
        /\ at' = "select_card"
        /\ issued' = st.issued
        /\ IF r = "Ok"
           THEN /\ InitGoto("get_scr")
                /\ UNCHANGED <<freq, high_capacity, ncard, timeout, scr, n>>
           ELSE InitReturn(r)
    /\ UNCHANGED <<card, bus_width, clkcr, power, fifo, sd_status,
                   inserted, scenario, prev, sent, busyPolls, crcs>>
    /\ tick' = 0
    /\ poll' = NoPoll
    /\ UNCHANGED <<status, hwvars>>

(***************************************************************************)
(* The data path                                                           *)
(***************************************************************************)
\* the status flags a drain loop looks at
DataFlags == {"rxoverr", "dcrcfail", "dtimeout", "dbckend", "rxdavl", "rxfifohf"}

\* the values SDMMC_STA may show to a poll: data-available needs a word in the
\* FIFO, half-full needs eight
StaReads == {sta \in SUBSET DataFlags :
                /\ "rxdavl" \in sta => Len(fifo) >= 1
                /\ "rxfifohf" \in sta => Len(fifo) >= 8}

\* the fatal flags tested with the data timeout first
try_datapath_timeout_first(sta) ==
    IF "dtimeout" \in sta THEN "Timeout"
    ELSE IF "rxoverr" \in sta THEN "RxOverFlow"
    ELSE IF "dcrcfail" \in sta THEN "DataCrcFail"
    ELSE "Ok"

\* macro try_datapath: the first fatal flag, in the order the macro tests them
try_datapath(sta) ==
    IF "rxoverr" \in sta THEN "RxOverFlow"
    ELSE IF "dcrcfail" \in sta THEN "DataCrcFail"
    ELSE IF "dtimeout" \in sta THEN "Timeout"
    ELSE "Ok"

\* SdMmc::start_datapath_transfer(length_bytes, block_size, Dir::CardToHost), made
\* in state st: the write of DLEN and DCTRL (dten set) is logged like a command
start_datapath_transfer(st, length_bytes, block_size) ==
    IF st.res # "Ok" THEN st
    ELSE [st EXCEPT !.issued = Append(@, [cmd |-> DataPath, arg |-> <<0, 0, block_size, length_bytes>>,
                                          rlen |-> "CardToHost", out |-> "Ok"])]

\* a fill in FIFO order
SlotForward(len, k) == k + 1

\* the slot of a descriptor array of len words (counted from 1) that takes the
\* k-th word read from the FIFO (counted from 0)
Slot(len, k) == len - k

\* what is stored for a word read from the FIFO
Stored(w) == swap_bytes(w)

\* arr with the next cnt FIFO words stored, the first at the slot of word k
RECURSIVE Fill(_, _, _, _)
Fill(arr, words, k, cnt) ==
    IF cnt = 0 THEN arr
    ELSE Fill([arr EXCEPT ![Slot(Len(arr), k)] = Stored(Head(words))],
              Tail(words), k + 1, cnt - 1)

\* the first cnt elements of a sequence dropped
RECURSIVE Drop(_, _)
Drop(words, cnt) == IF cnt = 0 THEN words ELSE Drop(Tail(words), cnt - 1)

(***************************************************************************)
(* SdMmc::get_scr, called by init                                          *)
(***************************************************************************)
\* set_block_length(8), the addressed prefix, start_datapath_transfer, send_scr
GetScrStart ==
    /\ pc = "get_scr"
    /\ \E o1 \in CmdOutcomes(set_block_length(8)),
          o2 \in CmdOutcomes(app_cmd_prefix(0)),
          o3 \in CmdOutcomes(send_scr) :
        LET rca == get_address(ncard)
            st1 == CmdRun(St0, set_block_length(8), o1, AnyR1)
            st2 == CmdRun(st1, app_cmd_prefix(rca), o2, AnyR1)
            st3 == CmdRun(start_datapath_transfer(st2, 8, 3), send_scr, o3, AnyR1)
        IN
        /\ Skipped(st1, o2)
        /\ Skipped(st2, o3)
        /\ at' = "get_scr"
        /\ issued' = st3.issued
        /\ IF st3.res = "Ok"
           THEN /\ InitGoto("scr_drain")
                /\ scr' = ZeroScr
                /\ n' = 0
                /\ fifo' = inserted.scrBlock
                /\ UNCHANGED <<freq, high_capacity, ncard, timeout>>
           ELSE /\ InitReturn(st3.res)
                /\ UNCHANGED fifo
    /\ UNCHANGED <<card, bus_width, clkcr, power, sd_status, inserted, scenario,
                   prev, sent, busyPolls, crcs>>
    /\ tick' = 0
    /\ poll' = NoPoll
    /\ UNCHANGED <<status, hwvars>>

\* an init that keeps a card already recorded
InstallKeep(old, new) == IF old = None THEN Some(new) ELSE old

\* self.card = Some(card)
Install(old, new) == Some(new)

\* one status poll of get_scr's drain loop; on Ok init stores the SCR and
\* records the card
GetScrPoll ==
    /\ pc = "scr_drain"
    /\ \E sta \in StaReads :
        LET err == try_datapath(sta)
            reads == err = "Ok" /\ "dbckend" \notin sta /\ "rxdavl" \in sta
            done == err = "Ok" /\ ("dbckend" \in sta \/ (reads /\ n + 1 = Len(scr)))
            got == IF reads THEN Fill(scr, fifo, n, 1) ELSE scr
        IN
        /\ at' = "scr_drain"
        /\ issued' = <<>>
        /\ poll' = [sta |-> sta, n |-> n, took |-> IF reads THEN 1 ELSE 0]
        \* what the loop leaves in the FIFO is not looked at again
        /\ fifo' = IF err # "Ok" \/ done THEN <<>> ELSE IF reads THEN Tail(fifo) ELSE fifo
        /\ IF err # "Ok"
           THEN /\ InitReturn(err)
                /\ UNCHANGED card
           ELSE IF done
           THEN /\ InitGoto("card_ready")
                /\ scr' = got
                /\ n' = IF reads THEN n + 1 ELSE n
                /\ card' = Install(card, [ncard EXCEPT !.scr = got])
                /\ ncard' = [ncard EXCEPT !.scr = got]
                /\ UNCHANGED <<freq, high_capacity, timeout>>
           ELSE /\ InitGoto("scr_drain")
                /\ scr' = got
                /\ n' = IF reads THEN n + 1 ELSE n
                /\ UNCHANGED <<card, freq, high_capacity, ncard, timeout>>
    /\ UNCHANGED <<bus_width, clkcr, power, sd_status, inserted,
                   scenario, prev, sent, busyPolls, crcs>>
    /\ tick' = 0
    /\ UNCHANGED <<status, hwvars>>

(***************************************************************************)
(* SdMmc::card_ready and SdMmc::set_bus, called by init                    *)
(***************************************************************************)
\* a readiness test with the sense of the loop condition inverted
card_ready_inverted(w) == StatusState(w) # Transfer

\* SdMmc::card_ready, for the R1 answer read_status read
card_ready(w) == StatusState(w) = Transfer

\* one iteration of `while !self.card_ready()? {}`
InitCardReady ==
    /\ pc = "card_ready"
    /\ at' = "card_ready"
    /\ IF card = None
       THEN /\ InitReturn(NoCard)
            /\ issued' = <<>>
            /\ status' = ZeroWord
            /\ tick' = 0
       ELSE \E o \in CmdOutcomes(card_status(0)), w \in R1Words :
            LET st == CmdRun(St0, card_status(get_address(card[1])), o, w) IN
            /\ o # "Ok" => w = AnyR1
            /\ issued' = st.issued
            /\ IF st.res = "Ok"
               THEN /\ InitGoto(IF card_ready(st.resp[1]) THEN "set_bus" ELSE "card_ready")
                    /\ status' = st.resp[1]
                    /\ tick' = IF card_ready(st.resp[1]) THEN 0 ELSE 1 - tick
                    /\ UNCHANGED <<freq, high_capacity, ncard, timeout, scr, n>>
               ELSE /\ InitReturn(st.res)
                    /\ status' = ZeroWord
                    /\ tick' = 0
    /\ UNCHANGED <<card, bus_width, clkcr, power, fifo, sd_status,
                   inserted, scenario, prev, sent, busyPolls, crcs>>
    /\ poll' = NoPoll
    /\ UNCHANGED hwvars

\* a set_bus that reprograms the host before it asks the card
SetBusClkcrFirst(res, old, f, width) == [clkdiv |-> f, widbus |-> width, clken |-> TRUE]

\* SdMmc::set_bus: SDMMC_CLKCR after the card-side command ended with res; the
\* divisor and the width are written in one modify, after the `?`
SetBusClkcr(res, old, f, width) ==
    IF res = "Ok" THEN [clkdiv |-> f, widbus |-> width, clken |-> TRUE] ELSE old

\* set_bus(self.bus_width, freq), then init returns
InitSetBus ==
    /\ pc = "set_bus"
    /\ at' = "set_bus"
    /\ status' = ZeroWord
    /\ IF card = None
       THEN /\ InitReturn(NoCard)
            /\ issued' = <<>>
            /\ UNCHANGED clkcr
       ELSE \E o1 \in CmdOutcomes(app_cmd_prefix(0)),
               o2 \in CmdOutcomes(set_bus_width(TRUE)) :
            LET width == NegotiatedWidth(bus_width, supports_widebus(card[1]))
                st == AppCmdRun(St0, set_bus_width(width = Four), o1, AnyR1, o2, AnyR1)
            IN
            /\ o1 # "Ok" => o2 = "Ok"
            /\ issued' = st.issued
            /\ clkcr' = SetBusClkcr(st.res, clkcr, freq, width)
            /\ InitReturn(st.res)
    /\ UNCHANGED <<card, bus_width, power, fifo, sd_status,
                   inserted, scenario, prev, sent, busyPolls, crcs>>
    /\ tick' = 0
    /\ poll' = NoPoll
    /\ UNCHANGED hwvars

(***************************************************************************)
(* SdMmc::read_sd_status and SdMmc::card, called by the user               *)
(***************************************************************************)
StatusReturn(val, data) ==
    /\ pc' = "caller"
    /\ ret' = [op |-> "read_sd_status", val |-> val, data |-> data]
    /\ sd_status' = ZeroStatus
    /\ n' = 0

\* card()?, set_block_length(64), start_datapath_transfer, app_cmd(sd_status)
ReadSdStatusStart ==
    /\ pc = "caller"
    /\ prev' = NoPrev
    /\ at' = "read_sd_status"
    /\ IF card = None
       THEN /\ StatusReturn(NoCard, <<>>)
            /\ issued' = <<>>
            /\ UNCHANGED fifo
       ELSE \E o1 \in CmdOutcomes(set_block_length(64)),
               o2 \in CmdOutcomes(app_cmd_prefix(0)),
               o3 \in CmdOutcomes(sd_status_cmd) :
            LET st1 == start_datapath_transfer(CmdRun(St0, set_block_length(64), o1, AnyR1), 64, 6)
                st2 == CmdRun(st1, app_cmd_prefix(AppRca), o2, AnyR1)
                st3 == AppCmdRun(st1, sd_status_cmd, o2, AnyR1, o3, AnyR1)
            IN
            /\ Skipped(st1, o2)
            /\ Skipped(st2, o3)
            /\ issued' = st3.issued
            /\ IF st3.res = "Ok"
               THEN /\ pc' = "sd_status_drain"
                    /\ sd_status' = ZeroStatus
                    /\ n' = 0
                    /\ fifo' = inserted.status
                    /\ ret' = NoRet
               ELSE /\ StatusReturn(st3.res, <<>>)
                    /\ UNCHANGED fifo
    /\ UNCHANGED <<card, bus_width, clkcr, power, freq, high_capacity, ncard, timeout,
                   scr, inserted, scenario, everOk, sent, busyPolls, crcs>>
    /\ tick' = 0
    /\ poll' = NoPoll
    /\ UNCHANGED <<status, hwvars>>

\* one status poll of read_sd_status's drain loop: a half-full FIFO gives eight words
ReadSdStatusPoll ==
    /\ pc = "sd_status_drain"
    /\ prev' = NoPrev
    /\ \E sta \in StaReads :
        LET err == try_datapath(sta)
            reads == err = "Ok" /\ "dbckend" \notin sta /\ "rxfifohf" \in sta
            done == err = "Ok" /\ ("dbckend" \in sta \/ (reads /\ n + 8 = Len(sd_status)))
            got == IF reads THEN Fill(sd_status, fifo, n, 8) ELSE sd_status
        IN
        /\ at' = "sd_status_drain"
        /\ issued' = <<>>
        /\ poll' = [sta |-> sta, n |-> n, took |-> IF reads THEN 8 ELSE 0]
        /\ fifo' = IF err # "Ok" \/ done THEN <<>> ELSE IF reads THEN Drop(fifo, 8) ELSE fifo
        /\ IF err # "Ok"
           THEN StatusReturn(err, <<>>)
           ELSE IF done
           THEN StatusReturn("Ok", got)
           ELSE /\ pc' = "sd_status_drain"
                /\ sd_status' = got
                /\ n' = IF reads THEN n + 8 ELSE n
                /\ ret' = NoRet
    /\ UNCHANGED <<card, bus_width, clkcr, power, freq, high_capacity,
                   ncard, timeout, scr, inserted, scenario, everOk, sent,
                   busyPolls, crcs>>
    /\ tick' = 0
    /\ UNCHANGED <<status, hwvars>>

\* SdMmc::card
CardCall ==
    /\ pc = "caller"
    /\ prev' = NoPrev
    /\ at' = "card"
    /\ issued' = <<>>
    /\ ret' = [op |-> "card", val |-> IF card = None THEN NoCard ELSE "Ok", data |-> <<>>]
    /\ UNCHANGED <<card, bus_width, clkcr, power, fifo, pc, freq,
                   high_capacity, ncard, timeout, scr, sd_status, n, inserted, scenario,
                   everOk, sent, busyPolls, crcs>>
    /\ tick' = 0
    /\ poll' = NoPoll
    /\ UNCHANGED <<status, hwvars>>

\* the user swaps the card in the slot between two calls
InsertCard ==
    /\ pc = "caller"
    /\ prev' = NoPrev
    /\ at' = "insert"
    /\ issued' = <<>>
    /\ inserted' \in Cards \ {inserted}
    /\ ret' = NoRet
    /\ UNCHANGED <<card, bus_width, clkcr, power, fifo, pc, freq,
                   high_capacity, ncard, timeout, scr, sd_status, n, scenario,
                   everOk, sent, busyPolls, crcs>>
    /\ tick' = 0
    /\ poll' = NoPoll
    /\ UNCHANGED <<status, hwvars>>

(***************************************************************************)
(* SdMmc::cmd, one status poll per step, with the command path of the      *)
(* peripheral: a command written to SDMMC_CMD keeps cmdact set until the   *)
(* command path is done with it and raises flags, which stay set until     *)
(* SDMMC_ICR clears them                                                   *)
(***************************************************************************)
\* what the calls of cmd leave alone
cmdframe == <<card, bus_width, clkcr, power, fifo, freq, high_capacity, ncard, timeout,
              scr, sd_status, n, issued, inserted, scenario, everOk, prev, sent,
              busyPolls, crcs, status, clock, cr1, tick, poll>>

\* the commands cmd is called with here: no response, a short one, a long one
CmdSet == {idle, send_if_cond, all_send_cid}

\* the flags of SDMMC_STA that cmd looks at
CmdFlags == {"ctimeout", "ccrcfail", "cmdrend", "cmdsent"}

\* a budget computed with the division by 1000 last
PollBudgetLate(hz) == (5000 * (hz \div 8)) \div 1000

\* `let timeout = 5000 * (self.clock.raw() / 8 / 1000)`
PollBudget(hz) == 5000 * ((hz \div 8) \div 1000)

\* a clearing of the flags that does nothing
clear_nothing(s) == s

\* clear_all_interrupts: every flag of the command path is cleared
clear_all_interrupts(s) ==
    [s EXCEPT !.ctimeout = FALSE, !.ccrcfail = FALSE, !.cmdrend = FALSE, !.cmdsent = FALSE]

\* a classification that treats every command like one with a response
ClassifyAlike(rlen, s) ==
    IF s.cmdact THEN "Pending"
    ELSE IF s.ctimeout THEN "Timeout"
    ELSE IF s.ccrcfail THEN "Crc"
    ELSE IF s.cmdrend \/ s.cmdsent THEN "Ok"
    ELSE "Pending"

\* a classification that tests the CRC failure before the timeout
ClassifyCrcFirst(rlen, s) ==
    IF s.cmdact THEN "Pending"
    ELSE IF rlen = "Zero"
    THEN IF s.ctimeout THEN "Timeout" ELSE IF s.cmdsent THEN "Ok" ELSE "Pending"
    ELSE IF s.ccrcfail THEN "Crc"
    ELSE IF s.ctimeout THEN "Timeout"
    ELSE IF s.cmdrend THEN "Ok"
    ELSE "Pending"

\* the body of cmd's poll loop for the status s read: the result it returns, or
\* "Pending" where it goes on polling
Classify(rlen, s) ==
    IF s.cmdact THEN "Pending"
    ELSE IF rlen = "Zero"
    THEN IF s.ctimeout THEN "Timeout" ELSE IF s.cmdsent THEN "Ok" ELSE "Pending"
    ELSE IF s.ctimeout THEN "Timeout"
    ELSE IF s.ccrcfail THEN "Crc"
    ELSE IF s.cmdrend THEN "Ok"
    ELSE "Pending"

\* a cmd that does not wait for the command path
CommandIdleAlways(s) == TRUE

\* `while self.sdmmc.sta.read().cmdact().bit_is_set() {}` is left
CommandIdle(s) == ~s.cmdact

\* cmd returns val
CmdReturn(val) ==
    /\ pc' = "caller"
    /\ ret' = [op |-> "cmd", val |-> val, data |-> <<>>]

\* cmd is called with command c; the result and the last status read of the call
\* before stay visible until the first poll of this one
CmdCall ==
    /\ pc = "caller"
    /\ \E c \in CmdSet : cur' = c
    /\ pc' = "cmd_wait"
    /\ at' = "cmd_call"
    /\ polls' = 0
    /\ UNCHANGED <<STA, fresh, seen, ret, cmdframe>>

\* cmd leaves its wait for cmdact, clears the flags and writes SDMMC_ARG and
\* SDMMC_CMD with cpsmen set: the command path starts on the command
CmdIssue ==
    /\ pc = "cmd_wait"
    /\ CommandIdle(STA)
    /\ STA' = [clear_all_interrupts(STA) EXCEPT !.cmdact = TRUE]
    /\ fresh' = NoFlags
    /\ pc' = "cmd_poll"
    /\ at' = "cmd_issue"
    /\ UNCHANGED <<cur, polls, seen, ret, cmdframe>>

\* the command path is done with the command and raises some of its flags
HwComplete ==
    /\ STA.cmdact
    /\ \E raised \in SUBSET CmdFlags :
        /\ STA' = [cmdact |-> FALSE,
                   ctimeout |-> (STA.ctimeout \/ "ctimeout" \in raised),
                   ccrcfail |-> (STA.ccrcfail \/ "ccrcfail" \in raised),
                   cmdrend |-> (STA.cmdrend \/ "cmdrend" \in raised),
                   cmdsent |-> (STA.cmdsent \/ "cmdsent" \in raised)]
        /\ fresh' = [cmdact |-> FALSE,
                     ctimeout |-> "ctimeout" \in raised,
                     ccrcfail |-> "ccrcfail" \in raised,
                     cmdrend |-> "cmdrend" \in raised,
                     cmdsent |-> "cmdsent" \in raised]
    /\ UNCHANGED <<pc, at, ret, cur, polls, seen, cmdframe>>

\* one iteration of `for _ in 0..timeout`
CmdPoll ==
    /\ pc = "cmd_poll"
    /\ polls < PollBudget(clock)
    /\ seen' = STA
    /\ polls' = polls + 1
    /\ at' = "cmd_poll"
    /\ IF Classify(cur.rlen, STA) = "Pending"
       THEN /\ ret' = NoRet
            /\ UNCHANGED pc
       ELSE CmdReturn(Classify(cur.rlen, STA))
    /\ UNCHANGED <<STA, fresh, cur, cmdframe>>

\* the loop has run out: Err(Error::SoftwareTimeout)
CmdGiveUp ==
    /\ pc = "cmd_poll"
    /\ polls = PollBudget(clock)
    /\ at' = "cmd_give_up"
    /\ CmdReturn("SoftwareTimeout")
    /\ UNCHANGED <<STA, fresh, cur, polls, seen, cmdframe>>

(***************************************************************************)
(* The power controller (src/src/pwr.rs)                                   *)
(***************************************************************************)
\* what the calls of Pwr leave alone
pwrframe == <<card, bus_width, clkcr, power, fifo, pc, freq, high_capacity, ncard,
              timeout, scr, sd_status, n, issued, inserted, scenario, everOk, prev,
              sent, busyPolls, crcs, status, clock, STA, cur, polls, seen, fresh, tick, poll>>

\* the system clocks a caller may pass, in Hz: every whole MHz up to MaxMHz, and
\* one Hz above it
SysClks == {m * 1000000 + d : m \in 1..MaxMHz, d \in {0, 1}}

\* a limit that is already too high itself
TooHighVosAtLimit(hz) == hz >= 26 * 1000000

\* `clocks.sysclk() > 26.MHz::<1, 1>()`
TooHighVos(hz) == hz > 26 * 1000000

\* `clocks.sysclk() > 2.MHz::<1, 1>()`
TooHighLpr(hz) == hz > 2 * 1000000

\* Pwr::set_power_range(range, clocks)
SetPowerRange ==
    /\ pc = "caller"
    /\ at' = "set_power_range"
    /\ \E range \in {HighPerformance, LowPower}, hz \in SysClks :
        IF range = LowPower /\ TooHighVos(hz)
        THEN /\ ret' = [op |-> "set_power_range", val |-> "SysClkTooHighVos",
                        data |-> <<range, hz>>]
             /\ UNCHANGED cr1
        ELSE /\ ret' = [op |-> "set_power_range", val |-> "Ok", data |-> <<range, hz>>]
             /\ cr1' = [cr1 EXCEPT !.vos = range]
    /\ UNCHANGED pwrframe

\* Pwr::low_power_run(clocks)
LowPowerRun ==
    /\ pc = "caller"
    /\ at' = "low_power_run"
    /\ \E hz \in SysClks :
        IF TooHighLpr(hz)
        THEN /\ ret' = [op |-> "low_power_run", val |-> "SysClkTooHighLpr", data |-> <<hz>>]
             /\ UNCHANGED cr1
        ELSE /\ ret' = [op |-> "low_power_run", val |-> "Ok", data |-> <<hz>>]
             /\ cr1' = [cr1 EXCEPT !.lpr = TRUE]
    /\ UNCHANGED pwrframe

(***************************************************************************)
(* The specifications                                                      *)
(***************************************************************************)
Next ==
    \/ InitStart
    \/ InitIfCond
    \/ InitOpCond
    \/ InitCid
    \/ InitRelAddr
    \/ InitCsd
    \/ InitSelect
    \/ GetScrStart
    \/ GetScrPoll
    \/ InitCardReady
    \/ InitSetBus
    \/ ReadSdStatusStart
    \/ ReadSdStatusPoll
    \/ CardCall
    \/ InsertCard

Spec == Init /\ [][Next]_vars

\* the same driver on a processor that keeps running: a call of init that has
\* started takes its next step, and a drain loop that polls sees the status
\* register change at some time; the caller and the card are left free
SpecLive ==
    /\ Init
    /\ [][Next]_vars
    /\ WF_vars(InitIfCond)
    /\ WF_vars(InitOpCond)
    /\ WF_vars(InitCid)
    /\ WF_vars(InitRelAddr)
    /\ WF_vars(InitCsd)
    /\ WF_vars(InitSelect)
    /\ WF_vars(GetScrStart)
    /\ WF_vars(GetScrPoll)
    /\ WF_vars(InitCardReady)
    /\ WF_vars(InitSetBus)

\* the voltage negotiation of a freshly constructed driver, with a card that may
\* stay busy for the whole retry budget and never fails a CRC
InitVolt ==
    /\ InitCommon
    /\ clock = SlowClock
    /\ bus_width = Four
    /\ inserted = CardA
    /\ scenario = [busy |-> RetryBudget, crc |-> FALSE]

NextVolt ==
    \/ InitStart
    \/ InitIfCond
    \/ InitOpCond
    \/ InitCid

SpecVolt == InitVolt /\ [][NextVolt]_vars

\* calls of cmd, one after the other, with a clock that leaves no budget for
\* polls and one that leaves 5000
InitCmd ==
    /\ InitCommon
    /\ clock \in {SlowClock - 1, SlowClock}
    /\ bus_width = One
    /\ inserted = CardA
    /\ scenario = [busy |-> 0, crc |-> FALSE]

NextCmd ==
    \/ CmdCall
    \/ CmdIssue
    \/ HwComplete
    \/ CmdPoll
    \/ CmdGiveUp

SpecCmd == InitCmd /\ [][NextCmd]_vars

\* calls of the power controller, with the SD/MMC driver at rest
InitPwr ==
    /\ InitCommon
    /\ clock = SlowClock
    /\ bus_width = One
    /\ inserted = CardA
    /\ scenario = [busy |-> 0, crc |-> FALSE]

NextPwr ==
    \/ SetPowerRange
    \/ LowPowerRun

SpecPwr == InitPwr /\ [][NextPwr]_vars

(***************************************************************************)
(* Properties                                                              *)
(***************************************************************************)
\* the last step made init return val
InitReturned(val) == pc = "caller" /\ ret = [op |-> "init", val |-> val, data |-> <<>>]

\* the last step made init return an error
InitFailed == pc = "caller" /\ ret.op = "init" /\ ret.val # "Ok"

\* the last entry of `issued`
LastIssued == issued[Len(issued)]

\* the RCA an addressed command carries in the upper half of its argument
ArgRca(e) == e.arg[1] * 256 + e.arg[2]

\* C1: whenever init returns an error, at whichever step and also in a re-run
\* after a successful run, no card is recorded afterwards.
C1_FailedInitLeavesNoCard == InitFailed => card = None

\* C2: as long as no init call has returned Ok, read_sd_status and card()
\* return NoCard and write no register.
C2_NoCardBeforeInitOk ==
    (~everOk /\ at \in {"read_sd_status", "card"}) =>
        /\ pc = "caller"
        /\ ret.val = NoCard
        /\ issued = <<>>

\* the SCR words get_scr can have assembled from the block a card sends: the
\* k-th word of the block byte-reversed in slot 2 - k, or the initial zero
\* where the drain loop stopped before the word was read
ScrOf(c) ==
    {ZeroScr,
     <<ZeroWord, <<c.scrBlock[1][4], c.scrBlock[1][3], c.scrBlock[1][2], c.scrBlock[1][1]>>>>,
     <<<<c.scrBlock[2][4], c.scrBlock[2][3], c.scrBlock[2][2], c.scrBlock[2][1]>>,
       <<c.scrBlock[1][4], c.scrBlock[1][3], c.scrBlock[1][2], c.scrBlock[1][1]>>>>}

\* the operating-conditions words a negotiation with card c can end on: the
\* card's OCR, or the R1 answer to a prefix whose CRC failed
OcrOf(c) == {c.ocr} \cup {w \in R1Words : w[1] >= 128}

\* C3: after a second init returns Ok following an earlier successful one, every
\* field of the card record is the value obtained from the card in the slot
\* during the second run; nothing of the record of the first run survives.
C3_RerunReplacesAllFields ==
    (InitReturned("Ok") /\ prev.ok) =>
        /\ card # None
        /\ card[1].cid = inserted.cid
        /\ card[1].csd = inserted.csd
        /\ card[1].rca = inserted.rca
        /\ card[1].ocr \in OcrOf(inserted)
        /\ card[1].capacity = (IF card[1].ocr[1] \div 64 = 3 THEN "HighCapacity"
                               ELSE "StandardCapacity")
        /\ card[1].scr \in ScrOf(inserted)

\* a second init has returned Ok with another card in the slot than the one the
\* first run recorded
C3_Witness ==
    /\ InitReturned("Ok")
    /\ prev.ok
    /\ prev.card # None
    /\ prev.card[1].cid = CardA.cid
    /\ prev.card[1].rca = CardA.rca
    /\ prev.card[1].scr[1] # ZeroWord
    /\ inserted = CardB
    /\ card[1].scr[1] # ZeroWord

\* C4: in a re-run of init after a successful run, no command issued before the
\* new address is assigned carries the previous session's RCA.
C4_NoStaleRcaInRerun ==
    (/\ prev.ok
     /\ prev.card # None
     /\ at \in {"init", "if_cond", "op_cond"}
     /\ get_address(prev.card[1]) # 0) =>
        \A i \in 1..Len(issued) : issued[i].arg # RcaArg(get_address(prev.card[1]))

\* C5: while every command succeeds, the loop has issued one operating-condition
\* command per iteration and all were answered busy; it is left on the first
\* answer that is not busy, after N busy answers and N + 1 commands, N < 65535;
\* with 65535 busy answers init returns SoftwareTimeout, and all-send-CID is
\* only issued after an answer that was not busy.
C5_VoltageNegotiation ==
    /\ pc = "op_cond" => (sent = RetryBudget - timeout /\ busyPolls = sent)
    /\ pc = "cid" => (/\ sent = RetryBudget - timeout
                      /\ sent = busyPolls + 1
                      /\ busyPolls < 65535)
    /\ (at = "op_cond" /\ pc = "caller" /\ issued = <<>>) =>
            (/\ ret = [op |-> "init", val |-> "SoftwareTimeout", data |-> <<>>]
             /\ busyPolls = 65535
             /\ sent = 65535)
    /\ at = "cid" => issued[1].cmd = 2

\* the loop is left after the largest number of busy answers the budget allows
C5_Witness == pc = "cid" /\ busyPolls = 65534 /\ sent = 65535

\* C6: in the voltage negotiation loop a Crc result never makes init return; a
\* successful answer that is not busy, also after a swallowed Crc, takes init to
\* all-send-CID; Timeout and SoftwareTimeout are returned at once.
C6_CrcSwallowed ==
    (at = "op_cond" /\ issued # <<>>) =>
        /\ LastIssued.out = "Crc" => pc \in {"op_cond", "cid"}
        /\ (LastIssued.out = "Ok" /\ LastIssued.cmd = 41 /\ sent > busyPolls) => pc = "cid"
        /\ (LastIssued.out = "Ok" /\ LastIssued.cmd = 41 /\ sent = busyPolls) => pc = "op_cond"
        /\ LastIssued.out \in {"Timeout", "SoftwareTimeout"} => InitReturned(LastIssued.out)

\* a CRC failure was swallowed, and the next application command succeeded with
\* an answer that is not busy
C6_Witness ==
    /\ at = "op_cond"
    /\ pc = "cid"
    /\ crcs = 1
    /\ Len(issued) = 2
    /\ LastIssued.out = "Ok"
    /\ sent = 2
    /\ busyPolls = 1

\* C7: a card that does not echo the check pattern, by a mismatching answer or by
\* no answer at all, is classified as version 1 and init goes on to the voltage
\* negotiation.
C7_NoEchoNeverFails ==
    (at = "if_cond" /\ issued[1].out \in {"Ok", "Timeout"}) =>
        /\ pc = "op_cond"
        /\ issued[1].out = "Timeout" => ~high_capacity

\* C8: select_card returns Ok for a hardware Timeout on RCA 0, Timeout for a
\* hardware Timeout on any other RCA, and every other result unchanged.
C8_SelectCard ==
    at = "select_card" =>
        /\ Len(issued) = 1
        /\ issued[1].cmd = 7
        /\ IF issued[1].out = "Timeout"
           THEN IF ArgRca(issued[1]) = 0 THEN pc = "get_scr" ELSE InitReturned("Timeout")
           ELSE IF issued[1].out = "Ok" THEN pc = "get_scr"
           ELSE InitReturned(issued[1].out)

\* the select command timed out on RCA 0 and init went on
C8_Witness ==
    /\ at = "select_card"
    /\ issued[1].out = "Timeout"
    /\ ArgRca(issued[1]) = 0
    /\ pc = "get_scr"

\* C9: set_bus negotiates Four exactly when the host is wired Four or Eight and
\* the card advertises 4-bit support, One otherwise; the width is never Eight,
\* never above the host's or the card's, and the same width goes into the
\* set-bus-width command and into the width register.
C9_BusWidth ==
    (at = "set_bus" /\ card # None) =>
        LET wide == (card[1].scr[2][2] \div 4) % 2 = 1
            w == IF bus_width \in {Four, Eight} /\ wide THEN Four ELSE One
        IN
        /\ Len(issued) = 2 =>
              (issued[2].cmd = 6 /\ issued[2].arg = <<0, 0, 0, IF w = Four THEN 2 ELSE 0>>)
        /\ InitReturned("Ok") =>
              /\ Len(issued) = 2
              /\ clkcr.widbus = w
              /\ clkcr.widbus # Eight
              /\ clkcr.widbus <= bus_width
              /\ clkcr.widbus = Four => wide

\* a host wired for eight lines and a card with 4-bit support: Four
C9_Witness ==
    /\ at = "set_bus"
    /\ InitReturned("Ok")
    /\ bus_width = Eight
    /\ supports_widebus(card[1])
    /\ clkcr.widbus = Four
    /\ issued[2].arg = <<0, 0, 0, 2>>

\* the k-th word of a block, its bytes reversed
Reversed(blk, k) == <<blk[k + 1][4], blk[k + 1][3], blk[k + 1][2], blk[k + 1][1]>>

\* C10: the k-th word read from the FIFO is stored byte-swapped at index
\* len - 1 - k of the descriptor array, in get_scr and in read_sd_status; the
\* block [0xAABBCCDD, 0x11223344] gives the SCR [0x44332211, 0xDDCCBBAA].
C10_DescriptorAssembly ==
    /\ (pc = "scr_drain" \/ (at = "scr_drain" /\ pc = "card_ready")) =>
          /\ \A k \in 0..(n - 1) : scr[(2 - 1 - k) + 1] = Reversed(inserted.scrBlock, k)
          /\ \A k \in n..1 : scr[(2 - 1 - k) + 1] = ZeroWord
          /\ (n = 2 /\ inserted.scrBlock = <<<<170, 187, 204, 221>>, <<17, 34, 51, 68>>>>) =>
                (/\ scr = <<<<68, 51, 34, 17>>, <<221, 204, 187, 170>>>>
                 /\ card[1].scr = scr)
    /\ pc = "sd_status_drain" =>
          /\ \A k \in 0..(n - 1) : sd_status[(16 - 1 - k) + 1] = Reversed(inserted.status, k)
          /\ \A k \in n..15 : sd_status[(16 - 1 - k) + 1] = ZeroWord
    /\ (pc = "caller" /\ ret.op = "read_sd_status" /\ ret.val = "Ok") =>
          \E m \in {0, 8, 16} :
              /\ \A k \in 0..(m - 1) : ret.data[(16 - 1 - k) + 1] = Reversed(inserted.status, k)
              /\ \A k \in m..15 : ret.data[(16 - 1 - k) + 1] = ZeroWord

\* both words of the block [0xAABBCCDD, 0x11223344] have been read into the SCR
C10_Witness ==
    /\ at = "scr_drain"
    /\ pc = "card_ready"
    /\ n = 2
    /\ inserted.scrBlock = <<<<170, 187, 204, 221>>, <<17, 34, 51, 68>>>>
    /\ card[1].scr = <<<<68, 51, 34, 17>>, <<221, 204, 187, 170>>>>

\* the last step made cmd return
CmdReturned == pc = "caller" /\ ret.op = "cmd"

\* C11: for a command without response the result of cmd is a function of the
\* command-active, hardware-timeout and command-sent flags of the status read
\* last and of the exhaustion of the poll budget; the CRC-failure and
\* response-received flags make no difference, and the result is never Crc.
C11_ZeroResponseIgnoresCrc ==
    (CmdReturned /\ cur.rlen = "Zero") =>
        /\ ret.val = (IF polls > 0 /\ ~seen.cmdact /\ seen.ctimeout THEN "Timeout"
                      ELSE IF polls > 0 /\ ~seen.cmdact /\ seen.cmdsent THEN "Ok"
                      ELSE "SoftwareTimeout")
        /\ ret.val = "SoftwareTimeout" => polls = 5000 * ((clock \div 8) \div 1000)

\* a command without response has returned Ok although the status read showed
\* the CRC-failure and response-received flags as well
C11_Witness ==
    /\ CmdReturned
    /\ cur.rlen = "Zero"
    /\ ret.val = "Ok"
    /\ seen.ccrcfail
    /\ seen.cmdrend
    /\ seen.cmdsent
    /\ ~seen.ctimeout

\* C12: when init fails inside set_bus, the card recorded stays recorded and
\* SDMMC_CLKCR keeps the value it had before set_bus; the clock divisor and the
\* bus width change only in the step in which the set-bus-width command has
\* succeeded, and then both are written in that one step.
C12_FailedSetBusKeepsClkcr ==
    [][/\ (pc = "set_bus" /\ card # None) =>
            /\ card' = card
            /\ ret'.val # "Ok" => clkcr' = clkcr
            /\ ret'.val = "Ok" => (/\ clkcr'.clkdiv = freq
                                   /\ clkcr'.widbus = IF issued'[2].arg = <<0, 0, 0, 2>>
                                                      THEN Four ELSE One)
       /\ (clkcr'.clkdiv # clkcr.clkdiv \/ clkcr'.widbus # clkcr.widbus) =>
            /\ pc = "set_bus"
            /\ Len(issued') = 2
            /\ issued'[2].cmd = 6
            /\ issued'[2].out = "Ok"
            /\ ret'.val = "Ok"
      ]_vars

\* the first init has failed on the set-bus-width command itself: the card is
\* recorded and the clock register still holds the identification settings
C12_Witness ==
    /\ at = "set_bus"
    /\ InitFailed
    /\ ~everOk
    /\ Len(issued) = 2
    /\ issued[2].cmd = 6
    /\ issued[2].out = "Timeout"
    /\ card # None
    /\ clkcr = [clkdiv |-> Freq400KHz, widbus |-> One, clken |-> TRUE]

C14_NoWriteWhileActive ==
    [][(pc = "cmd_wait" /\ pc' = "cmd_poll") => (~STA.cmdact /\ STA'.cmdact)]_vars

\* a command has been written by the call that followed a SoftwareTimeout whose
\* last poll still found the earlier command active
C14_Witness ==
    /\ at = "cmd_issue"
    /\ pc = "cmd_poll"
    /\ polls = 0
    /\ ret.val = "SoftwareTimeout"
    /\ seen.cmdact
    /\ STA.cmdact

\* C15: a call of cmd yields one result; for a command with a short or long
\* response the poll that finds the command no longer active returns Timeout if
\* the hardware-timeout flag is set, else Crc if the CRC-failure flag is set,
\* else Ok if the response-received flag is set, and goes on polling otherwise;
\* the flags were cleared before the command was written, so the flags a poll
\* reads are those raised for this command and no others.
C15_OneOutcomeFromFreshFlags ==
    /\ (pc = "cmd_poll" /\ polls > 0) =>
            /\ ret = NoRet
            /\ (seen.cmdact \/ cur.rlen = "Zero"
                \/ (~seen.ctimeout /\ ~seen.ccrcfail /\ ~seen.cmdrend))
    /\ CmdReturned =>
            /\ ret.val \in {"Ok", "Crc", "Timeout", "SoftwareTimeout"}
            /\ (at = "cmd_poll" /\ cur.rlen # "Zero") =>
                    /\ ~seen.cmdact
                    /\ ret.val = (IF seen.ctimeout THEN "Timeout"
                                  ELSE IF seen.ccrcfail THEN "Crc"
                                  ELSE "Ok")
                    /\ ret.val = "Ok" => seen.cmdrend
                    /\ seen = fresh
    /\ (pc = "cmd_poll" \/ (CmdReturned /\ at # "cmd_call")) =>
            IF STA.cmdact THEN STA = [NoFlags EXCEPT !.cmdact = TRUE] ELSE STA = fresh

\* a command with a long response has returned Crc: its response arrived with
\* a CRC failure and without a timeout
C15_Witness ==
    /\ CmdReturned
    /\ at = "cmd_poll"
    /\ cur.rlen = "R136"
    /\ ret.val = "Crc"
    /\ seen.ccrcfail
    /\ seen.cmdrend
    /\ ~seen.ctimeout
    /\ polls = 2

\* C16: after writing SDMMC_CMD cmd makes at most T = 5000 * (clock / 8 / 1000)
\* status polls and then returns; it returns SoftwareTimeout exactly when it has
\* made all T polls and none of them found the command inactive with a terminal
\* flag, which includes a command that stayed active for all T polls.
C16_PollBudget ==
    /\ polls <= 5000 * ((clock \div 8) \div 1000)
    /\ CmdReturned =>
            IF ret.val = "SoftwareTimeout"
            THEN /\ polls = 5000 * ((clock \div 8) \div 1000)
                 /\ polls > 0 =>
                        \/ seen.cmdact
                        \/ (~seen.ctimeout /\ (IF cur.rlen = "Zero" THEN ~seen.cmdsent
                                               ELSE ~seen.ccrcfail /\ ~seen.cmdrend))
            ELSE /\ polls >= 1
                 /\ ~seen.cmdact
                 /\ (seen.ctimeout \/ (IF cur.rlen = "Zero" THEN seen.cmdsent
                                       ELSE seen.ccrcfail \/ seen.cmdrend))

\* the command stayed active for all 5000 polls of an 8 kHz clock
C16_Witness ==
    /\ CmdReturned
    /\ clock = 8000
    /\ ret.val = "SoftwareTimeout"
    /\ polls = 5000
    /\ seen.cmdact
    /\ STA.cmdact

\* the upper half of the RCA word the card in the slot publishes, as an argument
NewRcaArg == <<inserted.rca[1], inserted.rca[2], 0, 0>>

\* the indices of the commands a step has written, in order
Indices(log) == [i \in 1..Len(log) |-> log[i].cmd]

\* C17: every step of init that does not end it with an error writes exactly
\* the commands of its place in the sequence GO_IDLE; CMD8; (CMD55, ACMD41)+;
\* CMD2; CMD3; CMD9 and CMD7 to the new RCA; CMD16 with 8, CMD55 to the new
\* RCA, the data path for 8 bytes, ACMD51; CMD13+; CMD55, ACMD6; the places
\* follow each other in this order, and the card record changes only in the
\* step that has read the SCR.
C17_InitCommandOrder ==
    [][/\ (pc' # "caller" \/ (ret'.op = "init" /\ ret'.val = "Ok")) =>
            /\ at' = "init" => (pc = "caller" /\ Indices(issued') = <<0>>)
            /\ at' = "if_cond" => (at = "init" /\ Indices(issued') = <<8>>)
            /\ at' = "op_cond" => (/\ at \in {"if_cond", "op_cond"}
                                   /\ Indices(issued') = <<55, 41>>)
            /\ at' = "cid" => (at = "op_cond" /\ Indices(issued') = <<2>>)
            /\ at' = "rel_addr" => (at = "cid" /\ Indices(issued') = <<3>>)
            /\ at' = "csd" => (/\ at = "rel_addr"
                               /\ Indices(issued') = <<9>>
                               /\ issued'[1].arg = NewRcaArg)
            /\ at' = "select_card" => (/\ at = "csd"
                                       /\ Indices(issued') = <<7>>
                                       /\ issued'[1].arg = NewRcaArg)
            /\ at' = "get_scr" => (/\ at = "select_card"
                                   /\ Indices(issued') = <<16, 55, DataPath, 51>>
                                   /\ issued'[1].arg = <<0, 0, 0, 8>>
                                   /\ issued'[2].arg = NewRcaArg
                                   /\ issued'[3].arg = <<0, 0, 3, 8>>
                                   /\ issued'[3].rlen = "CardToHost")
            /\ at' = "scr_drain" => (at \in {"get_scr", "scr_drain"} /\ issued' = <<>>)
            /\ at' = "card_ready" => (/\ at \in {"scr_drain", "card_ready"}
                                      /\ Indices(issued') = <<13>>)
            /\ at' = "set_bus" => (at = "card_ready" /\ Indices(issued') = <<55, 6>>)
       /\ card' # card => (pc = "scr_drain" /\ pc' = "card_ready")
      ]_vars

\* C18: during init the set-bus-width command is written and the clock divisor
\* and bus width are reprogrammed only in the step after a card-status read,
\* addressed to the newly assigned RCA, that ended Ok and reported the state
\* Transfer; set_bus is reached with such a status and no other; an error of a
\* status read ends init with that error and without bus reconfiguration.
C18_TransferBeforeSetBus ==
    [][/\ pc' = "set_bus" =>
            /\ (status'[3] \div 2) % 16 = 4
            /\ at' = "card_ready"
            /\ Indices(issued') = <<13>>
            /\ issued'[1].out = "Ok"
            /\ issued'[1].arg = NewRcaArg
       /\ ((at' = "set_bus" /\ issued' # <<>>)
           \/ clkcr'.clkdiv # clkcr.clkdiv \/ clkcr'.widbus # clkcr.widbus) =>
            /\ pc = "set_bus"
            /\ at = "card_ready"
            /\ (status[3] \div 2) % 16 = 4
            /\ issued[1].cmd = 13
            /\ issued[1].out = "Ok"
       /\ (at' = "card_ready" /\ issued' # <<>> /\ issued'[1].out # "Ok") =>
            /\ pc' = "caller"
            /\ ret' = [op |-> "init", val |-> issued'[1].out, data |-> <<>>]
            /\ clkcr' = clkcr
       /\ (at' = "card_ready" /\ issued' # <<>> /\ issued'[1].out = "Ok"
           /\ (status'[3] \div 2) % 16 # 4) => pc' = "card_ready"
      ]_vars

\* init has found the card with RCA 1 in Transfer and then reprogrammed the bus
\* to four lines at 24 MHz
C18_Witness ==
    /\ at = "set_bus"
    /\ InitReturned("Ok")
    /\ inserted = CardA
    /\ Indices(issued) = <<55, 6>>
    /\ issued[1].arg = <<0, 1, 0, 0>>
    /\ clkcr = [clkdiv |-> Freq24MHz, widbus |-> Four, clken |-> TRUE]

\* the argument of a prefix addressed to the card the driver has recorded
RecordedRcaArg == IF card = None THEN ZeroWord ELSE <<card[1].rca[1], card[1].rca[2], 0, 0>>

\* the application command of the step taken last, where it calls app_cmd
AppIndex == CASE at = "op_cond" -> 41 [] at = "set_bus" -> 6 [] at = "read_sd_status" -> 13

\* C19: in every step that calls app_cmd (the voltage negotiation, set_bus,
\* read_sd_status) the application command comes right after a prefix that
\* ended Ok; every prefix is addressed to the RCA of the card recorded, or to 0
\* when none is recorded; after a prefix that failed nothing more is written
\* and its error is the result (which only the voltage loop swallows, for Crc).
C19_AppCmdPrefix ==
    at \in {"op_cond", "set_bus", "read_sd_status"} =>
        \A i \in 1..Len(issued) :
            /\ issued[i].cmd = AppIndex =>
                    /\ i > 1
                    /\ issued[i - 1].cmd = 55
                    /\ issued[i - 1].out = "Ok"
            /\ issued[i].cmd = 55 =>
                    /\ issued[i].arg = RecordedRcaArg
                    /\ issued[i].out = "Ok" => (i < Len(issued) /\ issued[i + 1].cmd = AppIndex)
                    /\ issued[i].out # "Ok" =>
                            /\ i = Len(issued)
                            /\ IF at = "op_cond" /\ issued[i].out = "Crc"
                               THEN pc \in {"op_cond", "cid"}
                               ELSE pc = "caller" /\ ret.val = issued[i].out

\* the voltage negotiation of a re-run has sent the operating-condition command
\* after a prefix addressed to the card still recorded, RCA 1
C19_Witness ==
    /\ at = "op_cond"
    /\ prev.ok
    /\ card # None
    /\ Indices(issued) = <<55, 41>>
    /\ issued[1].arg = <<0, 1, 0, 0>>
    /\ issued[1].out = "Ok"


\* the steps of init between the GO_IDLE command and the bus reconfiguration
IdentificationSteps ==
    {"if_cond", "op_cond", "cid", "rel_addr", "csd", "select", "get_scr", "scr_drain",
     "card_ready", "set_bus"}

\* C20: from the GO_IDLE command of any init call until set_bus reprograms the
\* clock register, the clock is at the 400 kHz setting and the bus one line
\* wide, also when an earlier init configured a faster clock or a wider bus.
C20_IdentificationClock ==
    pc \in IdentificationSteps => (clkcr.clkdiv = Freq400KHz /\ clkcr.widbus = One)




\* the last step was a status poll of a drain loop
Polled == at \in {"scr_drain", "sd_status_drain"}

\* the last step made the running call return val: init for the SCR loop,
\* read_sd_status for the SD-status loop
DrainReturned(val) ==
    /\ pc = "caller"
    /\ ret.val = val
    /\ ret.op = (IF at = "scr_drain" THEN "init" ELSE "read_sd_status")

\* C21: a status poll of a drain loop that reads receive-overrun returns
\* RxOverFlow, else one that reads data-CRC-failure returns DataCrcFail, else
\* one that reads data-timeout returns Timeout, at once and with no FIFO word
\* read after the poll, whatever block-complete and data-available say; a poll
\* without a fatal flag returns none of these errors.
C21_FatalFlagsFirst ==
    Polled =>
        /\ "rxoverr" \in poll.sta => (DrainReturned("RxOverFlow") /\ poll.took = 0)
        /\ ("dcrcfail" \in poll.sta /\ "rxoverr" \notin poll.sta) =>
                (DrainReturned("DataCrcFail") /\ poll.took = 0)
        /\ ("dtimeout" \in poll.sta /\ poll.sta \cap {"rxoverr", "dcrcfail"} = {}) =>
                (DrainReturned("Timeout") /\ poll.took = 0)
        /\ poll.sta \cap {"rxoverr", "dcrcfail", "dtimeout"} = {} =>
                (pc = "caller" => ret.val = "Ok")

\* read_sd_status has read eight words, then a poll showed overrun together
\* with data timeout, block-complete and a half-full FIFO: RxOverFlow
C21_Witness ==
    /\ at = "sd_status_drain"
    /\ poll.n = 8
    /\ poll.sta = {"rxoverr", "dtimeout", "dbckend", "rxfifohf"}
    /\ poll.took = 0
    /\ DrainReturned("RxOverFlow")


\* FIFO words the drain loop has read when its last poll is done
Consumed == poll.n + poll.took

\* C22: get_scr returns Ok only with both SCR words read from the FIFO, and
\* read_sd_status returns Ok only with all 16 SD-status words read, however
\* block-complete interleaves with data-available and half-full: no word of a
\* descriptor returned with Ok is a zero that was never read.
C22_OkAfterAllWords ==
    /\ (at = "scr_drain" /\ pc = "card_ready") =>
            (Consumed = 2 /\ \A k \in 0..1 : scr[(2 - 1 - k) + 1] = Reversed(inserted.scrBlock, k))
    /\ (at = "sd_status_drain" /\ DrainReturned("Ok")) =>
            (Consumed = 16 /\
             \A k \in 0..15 : ret.data[(16 - 1 - k) + 1] = Reversed(inserted.status, k))


\* C23: every call of init returns, Ok or with an error, also when every
\* card-status read succeeds and none reports the Transfer state.
C23_InitTerminates == (pc \in IdentificationSteps) ~> (pc = "caller")

====
